---- MODULE Spec2Model ----
(***************************************************************************)
(* Model of react-session-hooks: useLocalState / useSessionState and the   *)
(* helpers of utils.ts (calculateNewValue, updateStorage, setInitialValue).*)
(*                                                                         *)
(* One hook instance (a "binding") is mounted in a component.  The backend *)
(* (localStorage or sessionStorage) maps keys to strings.  Strings are     *)
(* sequences of one-character strings so that JSON.stringify / JSON.parse  *)
(* and the custom serializers of the test-suite are computed, not assumed. *)
(***************************************************************************)
EXTENDS Integers, Sequences, FiniteSets, TLC

(***************************************************************************)
(* Bounds of the model.                                                    *)
(***************************************************************************)
\* largest number a value may hold
MaxNum == 2
\* largest number of update calls and writes of other tabs in one run
MaxSteps == 2

(***************************************************************************)
(* JavaScript values.  Every value is a record of the same shape.          *)
(***************************************************************************)
V(k, n, s) == [k |-> k, n |-> n, s |-> s]
NULL == V("null", 0, <<>>)
UNDEFINED == V("undefined", 0, <<>>)
Num(n) == V("number", n, <<>>)
\* Number.NaN
NaN == V("nan", 0, <<>>)
Bool(b) == V("boolean", IF b THEN 1 ELSE 0, <<>>)
Str(s) == V("string", 0, s)
\* the object { name: s } of the tests' custom serializer
Obj(s) == V("object", 0, s)
\* const c = {}; c.self = c  (JSON.stringify throws on it)
CIRCULAR == V("circular", 0, <<>>)

\* the names a test object may carry
Names == {<<>>, <<"J">>}

\* the values of the runs: T is number | boolean | string | object for the
\* default serializer, { name: string } for the custom one
JsonValues == {Num(0), Num(1), NaN, Bool(FALSE), Str(<<>>), Str(<<"a">>), CIRCULAR}
NameValues == {Obj(s) : s \in Names}

\* !value
Falsy(v) ==
    \/ v.k \in {"null", "undefined", "nan"}
    \/ v.k = "number" /\ v.n = 0
    \/ v.k = "boolean" /\ v.n = 0
    \/ v.k = "string" /\ v.s = <<>>

(***************************************************************************)
(* Strings of the backend.                                                 *)
(***************************************************************************)
Quote == "\""
Digits == <<"0", "1", "2", "3", "4", "5", "6", "7", "8", "9">>
IsDigit(c) == \E i \in 1..10 : Digits[i] = c
DigitVal(c) == (CHOOSE i \in 1..10 : Digits[i] = c) - 1

RECURSIVE NatToStr(_)
NatToStr(n) ==
    IF n < 10 THEN <<Digits[n + 1]>>
    ELSE NatToStr(n \div 10) \o <<Digits[(n % 10) + 1]>>

RECURSIVE StrToNat(_)
StrToNat(str) ==
    IF Len(str) = 0 THEN 0
    ELSE 10 * StrToNat(SubSeq(str, 1, Len(str) - 1)) + DigitVal(str[Len(str)])

ObjPrefix == <<"{", Quote, "n", "a", "m", "e", Quote, ":", Quote>>
ObjSuffix == <<Quote, "}">>
TextNull == <<"n", "u", "l", "l">>
TextTrue == <<"t", "r", "u", "e">>
TextFalse == <<"f", "a", "l", "s", "e">>
TextUndefined == <<"u", "n", "d", "e", "f", "i", "n", "e", "d">>
\* "invalid JSON" of the tests, shortened
TextInvalid == <<"x">>

\* the outcome of a call that may throw
Ok(r) == [ok |-> TRUE, r |-> r]
Throws == [ok |-> FALSE, r |-> <<>>]
ThrowsValue == [ok |-> FALSE, r |-> NULL]

HasPrefix(str, p) == Len(str) >= Len(p) /\ SubSeq(str, 1, Len(p)) = p
HasSuffix(str, p) ==
    Len(str) >= Len(p) /\ SubSeq(str, Len(str) - Len(p) + 1, Len(str)) = p
Plain(str) == \A i \in 1..Len(str) : str[i] \notin {Quote, "\\"}

\* JSON.stringify(value); a string, or a throw (circular structure).
\* JSON.stringify(undefined) is undefined, which setItem stores as "undefined";
\* JSON.stringify(NaN) is "null".
JSONstringify(v) ==
    CASE v.k \in {"null", "nan"} -> Ok(TextNull)
      [] v.k = "undefined" -> Ok(TextUndefined)
      [] v.k = "number" -> Ok(NatToStr(v.n))
      [] v.k = "boolean" -> Ok(IF v.n = 1 THEN TextTrue ELSE TextFalse)
      [] v.k = "string" -> Ok(<<Quote>> \o v.s \o <<Quote>>)
      [] v.k = "object" -> Ok(ObjPrefix \o v.s \o ObjSuffix)
      [] OTHER -> Throws

\* JSON.parse(text); a value, or a throw (SyntaxError)
JSONparse(str) ==
    CASE str = TextNull -> Ok(NULL)
      [] str = TextTrue -> Ok(Bool(TRUE))
      [] str = TextFalse -> Ok(Bool(FALSE))
      [] /\ Len(str) >= 1
         /\ \A i \in 1..Len(str) : IsDigit(str[i])
         /\ (Len(str) = 1 \/ str[1] # "0") -> Ok(Num(StrToNat(str)))
      [] /\ Len(str) >= 2
         /\ str[1] = Quote
         /\ str[Len(str)] = Quote
         /\ Plain(SubSeq(str, 2, Len(str) - 1)) -> Ok(Str(SubSeq(str, 2, Len(str) - 1)))
      [] /\ Len(str) >= Len(ObjPrefix) + Len(ObjSuffix)
         /\ HasPrefix(str, ObjPrefix)
         /\ HasSuffix(str, ObjSuffix)
         /\ Plain(SubSeq(str, Len(ObjPrefix) + 1, Len(str) - Len(ObjSuffix))) ->
             Ok(Obj(SubSeq(str, Len(ObjPrefix) + 1, Len(str) - Len(ObjSuffix))))
      [] OTHER -> ThrowsValue

\* (value: { name: string }) => value.name
\* null.name throws a TypeError; a primitive has no name and setItem stores "undefined"
nameSerialize(v) ==
    CASE v.k = "object" -> Ok(v.s)
      [] v.k \in {"null", "undefined"} -> Throws
      [] OTHER -> Ok(TextUndefined)

\* (value: string) => ({ name: value })
nameDeserialize(str) == Ok(Obj(str))

\* the serializer / deserializer pair the hook was called with
Codecs == {"json", "name"}
serialize(codec, v) == IF codec = "json" THEN JSONstringify(v) ELSE nameSerialize(v)
deserialize(codec, str) == IF codec = "json" THEN JSONparse(str) ELSE nameDeserialize(str)

\* serialize and deserialize are inverses on v
RoundTrips(c, v) == serialize(c, v).ok /\ deserialize(c, serialize(c, v).r) = Ok(v)

\* the values of type T for a codec
TypeOf(codec) == IF codec = "json" THEN JsonValues ELSE NameValues

(***************************************************************************)
(* The storage backend (the Storage interface of the browser).             *)
(***************************************************************************)
Keys == {"testKey", "otherKey"}

\* what getItem returns: null, or the string stored
NoItem == [has |-> FALSE, str |-> <<>>]
Item(str) == [has |-> TRUE, str |-> str]
\* if (item): null and "" are falsy
Truthy(item) == item.has /\ item.str # <<>>

getItem(store, k) == store[k]
setItem(store, k, str) == [store EXCEPT ![k] = Item(str)]
removeItem(store, k) == [store EXCEPT ![k] = NoItem]

\* a call the hook made on the backend; "of" is the value a set persisted
Call(op, k, str, of) == [op |-> op, key |-> k, str |-> str, of |-> of]
CallGet(k) == Call("getItem", k, <<>>, NULL)
CallRemove(k) == Call("removeItem", k, <<>>, NULL)
CallSet(k, str, of) == Call("setItem", k, str, of)

(***************************************************************************)
(* Update requests: a literal, or an updater function.                     *)
(***************************************************************************)
Literal(v) == [fn |-> "none", v |-> v]
\* (prev) => (prev !== null ? prev + 1 : 1)
Increment == [fn |-> "increment", v |-> NULL]
\* () => v
Constant(v) == [fn |-> "constant", v |-> v]
\* () => { throw new Error() }
Thrower == [fn |-> "thrower", v |-> NULL]

\* callback(storedValue)
callback(req, prev) ==
    CASE req.fn = "increment" ->
             Ok(IF prev.k = "null" THEN Num(1) ELSE Num(prev.n + 1))
      [] req.fn = "constant" -> Ok(req.v)
      [] OTHER -> ThrowsValue

(***************************************************************************)
(* utils.ts                                                                *)
(***************************************************************************)
\* calculateNewValue with the !value test applied to the updater's result too
calculateNewValue_CoerceAll(req, storedValue) ==
    LET c == IF req.fn # "none" THEN callback(req, storedValue) ELSE Ok(req.v) IN
    IF c.ok /\ Falsy(c.r) THEN Ok(NULL) ELSE c

\* calculateNewValue with value ?? null for the !value test
calculateNewValue_Nullish(req, storedValue) ==
    IF req.fn # "none" THEN callback(req, storedValue)
    ELSE IF req.v.k \in {"null", "undefined"} THEN Ok(NULL)
    ELSE Ok(req.v)

\* calculateNewValue(value, storedValue): the new value, or the updater's throw
calculateNewValue(req, storedValue) ==
    IF req.fn # "none" THEN callback(req, storedValue)
    ELSE IF Falsy(req.v) THEN Ok(NULL)
    ELSE Ok(req.v)

\* newValue === null || newValue == undefined || newValue === ""
IsEmpty(v) == v.k \in {"null", "undefined"} \/ (v.k = "string" /\ v.s = <<>>)

\* updateStorage with setStoredValue(null) in the catch block
updateStorage_NullOnAbort(store, newValue, k, cur, codec, full) ==
    IF IsEmpty(newValue)
    THEN [store |-> removeItem(store, k), value |-> NULL,
          calls |-> <<CallRemove(k)>>, warned |-> FALSE]
    ELSE LET s == serialize(codec, newValue) IN
         IF s.ok /\ ~full
         THEN [store |-> setItem(store, k, s.r), value |-> newValue,
               calls |-> <<CallSet(k, s.r, newValue)>>, warned |-> FALSE]
         ELSE [store |-> store, value |-> NULL, calls |-> <<>>, warned |-> TRUE]

\* updateStorage without storage.removeItem(key) for an empty value
updateStorage_KeepKey(store, newValue, k, cur, codec, full) ==
    IF IsEmpty(newValue)
    THEN [store |-> store, value |-> NULL, calls |-> <<>>, warned |-> FALSE]
    ELSE LET s == serialize(codec, newValue) IN
         IF s.ok /\ ~full
         THEN [store |-> setItem(store, k, s.r), value |-> newValue,
               calls |-> <<CallSet(k, s.r, newValue)>>, warned |-> FALSE]
         ELSE [store |-> store, value |-> cur, calls |-> <<>>, warned |-> TRUE]

\* updateStorage that removes a record which already holds the new value
updateStorage_Toggle(store, newValue, k, cur, codec, full) ==
    IF IsEmpty(newValue)
    THEN [store |-> removeItem(store, k), value |-> NULL,
          calls |-> <<CallRemove(k)>>, warned |-> FALSE]
    ELSE LET s == serialize(codec, newValue) IN
         IF s.ok /\ ~full
         THEN IF getItem(store, k) = Item(s.r)
              THEN [store |-> removeItem(store, k), value |-> NULL,
                    calls |-> <<CallRemove(k)>>, warned |-> FALSE]
              ELSE [store |-> setItem(store, k, s.r), value |-> newValue,
                    calls |-> <<CallSet(k, s.r, newValue)>>, warned |-> FALSE]
         ELSE [store |-> store, value |-> cur, calls |-> <<>>, warned |-> TRUE]

\* updateStorage with storage.removeItem(key) in the catch block
updateStorage_RemoveOnAbort(store, newValue, k, cur, codec, full) ==
    IF IsEmpty(newValue)
    THEN [store |-> removeItem(store, k), value |-> NULL,
          calls |-> <<CallRemove(k)>>, warned |-> FALSE]
    ELSE LET s == serialize(codec, newValue) IN
         IF s.ok /\ ~full
         THEN [store |-> setItem(store, k, s.r), value |-> newValue,
               calls |-> <<CallSet(k, s.r, newValue)>>, warned |-> FALSE]
         ELSE [store |-> removeItem(store, k), value |-> cur,
               calls |-> <<CallRemove(k)>>, warned |-> TRUE]

\* updateStorage(storage, newValue, key, setStoredValue, serialize).
\* cur is the state before the call; full says that setItem throws (quota).
\* Yields the backend, the state set and the backend calls made.
updateStorage(store, newValue, k, cur, codec, full) ==
    IF IsEmpty(newValue)
    THEN [store |-> removeItem(store, k), value |-> NULL,
          calls |-> <<CallRemove(k)>>, warned |-> FALSE]
    ELSE LET s == serialize(codec, newValue) IN
         IF s.ok /\ ~full
         THEN [store |-> setItem(store, k, s.r), value |-> newValue,
               calls |-> <<CallSet(k, s.r, newValue)>>, warned |-> FALSE]
         ELSE [store |-> store, value |-> cur, calls |-> <<>>, warned |-> TRUE]

\* the default step with if (defaultValue) for if (defaultValue !== undefined)
setDefaultValue_Truthy(store, k, defaultValue, codec, full, calls) ==
    LET s == IF ~Falsy(defaultValue) THEN serialize(codec, defaultValue) ELSE Throws IN
    IF ~Falsy(defaultValue) /\ s.ok /\ ~full
    THEN [store |-> setItem(store, k, s.r), value |-> defaultValue,
          calls |-> calls \o <<CallSet(k, s.r, defaultValue)>>,
          ret |-> TRUE, path |-> "default"]
    ELSE [store |-> store, value |-> NULL, calls |-> calls, ret |-> TRUE,
          path |-> IF defaultValue # UNDEFINED THEN "unserializable" ELSE "nothing"]

\* the default step with if (defaultValue !== null) for if (defaultValue !== undefined)
setDefaultValue_NotNull(store, k, defaultValue, codec, full, calls) ==
    LET s == IF defaultValue # NULL THEN serialize(codec, defaultValue) ELSE Throws IN
    IF defaultValue # NULL /\ s.ok /\ ~full
    THEN [store |-> setItem(store, k, s.r), value |-> defaultValue,
          calls |-> calls \o <<CallSet(k, s.r, defaultValue)>>,
          ret |-> TRUE, path |-> "default"]
    ELSE [store |-> store, value |-> NULL, calls |-> calls, ret |-> TRUE,
          path |-> IF defaultValue # NULL THEN "unserializable" ELSE "nothing"]

\* the default step with setStoredValue(defaultValue) before the try block
setDefaultValue_KeepDefault(store, k, defaultValue, codec, full, calls) ==
    LET s == IF defaultValue # UNDEFINED THEN serialize(codec, defaultValue) ELSE Throws IN
    IF defaultValue # UNDEFINED /\ s.ok /\ ~full
    THEN [store |-> setItem(store, k, s.r), value |-> defaultValue,
          calls |-> calls \o <<CallSet(k, s.r, defaultValue)>>,
          ret |-> TRUE, path |-> "default"]
    ELSE [store |-> store,
          value |-> IF defaultValue # UNDEFINED THEN defaultValue ELSE NULL,
          calls |-> calls, ret |-> TRUE,
          path |-> IF defaultValue # UNDEFINED THEN "unserializable" ELSE "nothing"]

\* the default step with return false after setStoredValue(null)
setDefaultValue_Unresolved(store, k, defaultValue, codec, full, calls) ==
    LET s == IF defaultValue # UNDEFINED THEN serialize(codec, defaultValue) ELSE Throws IN
    IF defaultValue # UNDEFINED /\ s.ok /\ ~full
    THEN [store |-> setItem(store, k, s.r), value |-> defaultValue,
          calls |-> calls \o <<CallSet(k, s.r, defaultValue)>>,
          ret |-> TRUE, path |-> "default"]
    ELSE [store |-> store, value |-> NULL, calls |-> calls, ret |-> FALSE,
          path |-> IF defaultValue # UNDEFINED THEN "unserializable" ELSE "nothing"]

\* lines 58-68 of setInitialValue: the default, or null
setDefaultValue(store, k, defaultValue, codec, full, calls) ==
    LET s == IF defaultValue # UNDEFINED THEN serialize(codec, defaultValue) ELSE Throws IN
    IF defaultValue # UNDEFINED /\ s.ok /\ ~full
    THEN [store |-> setItem(store, k, s.r), value |-> defaultValue,
          calls |-> calls \o <<CallSet(k, s.r, defaultValue)>>,
          ret |-> TRUE, path |-> "default"]
    ELSE [store |-> store, value |-> NULL, calls |-> calls, ret |-> TRUE,
          path |-> IF defaultValue # UNDEFINED THEN "unserializable" ELSE "nothing"]

\* setInitialValue with storage.clear() for storage.removeItem(key)
setInitialValue_ClearAll(store, k, defaultValue, codec, full) ==
    LET item == getItem(store, k)
        d == IF Truthy(item) THEN deserialize(codec, item.str) ELSE ThrowsValue
    IN  IF Truthy(item) /\ d.ok
        THEN [store |-> store, value |-> d.r, calls |-> <<CallGet(k)>>,
              ret |-> TRUE, path |-> "stored"]
        ELSE IF Truthy(item)
        THEN setDefaultValue([j \in DOMAIN store |-> NoItem], k, defaultValue, codec,
                             full, <<CallGet(k), CallRemove(k)>>)
        ELSE setDefaultValue(store, k, defaultValue, codec, full, <<CallGet(k)>>)

\* setInitialValue(storage, key, defaultValue, setStoredValue, deserialize, serialize)
setInitialValue(store, k, defaultValue, codec, full) ==
    LET item == getItem(store, k)
        d == IF Truthy(item) THEN deserialize(codec, item.str) ELSE ThrowsValue
    IN  IF Truthy(item) /\ d.ok
        THEN [store |-> store, value |-> d.r, calls |-> <<CallGet(k)>>,
              ret |-> TRUE, path |-> "stored"]
        ELSE IF Truthy(item)
        THEN setDefaultValue(removeItem(store, k), k, defaultValue, codec, full,
                             <<CallGet(k), CallRemove(k)>>)
        ELSE setDefaultValue(store, k, defaultValue, codec, full, <<CallGet(k)>>)

(***************************************************************************)
(* The hook instance and its surroundings.                                 *)
(***************************************************************************)
VARIABLES
    hook,          \* "local" (useLocalState) or "session" (useSessionState)
    codec,         \* the serialize / deserialize arguments
    key,           \* the key argument
    defaultValue,  \* the defaultValue argument (UNDEFINED when not given)
    storage,       \* localStorage / sessionStorage: key -> item
    value,         \* useState: the state the next render returns
    loading,       \* useState: the loading flag
    rendered,      \* the value the last render returned, closed over by updateValue
    phase,         \* "mounting" (rendered once, effect not yet run) or "active"
    listening,     \* handleStorageChange is registered on window
    events,        \* "storage" events raised by other tabs, not yet dispatched
    steps,         \* update calls and writes of other tabs so far
    last,          \* history: the last step (and the one before), its inputs, and
                   \* value and item before it
    fresh,         \* history: value and record were last set together, by the hook's
                   \* load or successful update or by a well-formed notification
                   \* carrying what the record holds
    other          \* a second hook instance on the same key, where a run has one:
                   \* its backend, state, last render and pending "storage" events

vars ==
    <<hook, codec, key, defaultValue, storage, value, loading, rendered, phase,
      listening, events, steps, last, fresh, other>>

\* strings found in the backend before the hook mounts, or written by other tabs
Strings == {<<>>, TextInvalid, <<"1">>, TextNull, <<"J">>}
Items == {NoItem} \cup {Item(str) : str \in Strings}

\* a StorageEvent: the key and the new value (null after a removal)
StorageEvent(k, item) == [key |-> k, newValue |-> item]

\* what the component may pass as defaultValue, and update may be called with
Defaults(c) == TypeOf(c) \cup {NULL, UNDEFINED}
Literals(c) == TypeOf(c) \cup {NULL, UNDEFINED, Str(<<>>)}
Returned(c) ==
    {NULL, UNDEFINED, Str(<<>>)}
        \cup IF c = "json" THEN {Num(0), Bool(FALSE)} ELSE {Obj(<<>>)}
Requests(c, prev) ==
    {Literal(v) : v \in Literals(c)}
        \cup {Constant(v) : v \in Returned(c)}
        \cup {Thrower}
        \cup IF c = "json" /\ (prev = NULL \/ (prev.k = "number" /\ prev.n < MaxNum))
             THEN {Increment} ELSE {}

\* setItem may throw (QuotaExceededError), and only where serialize gave it a string
Quota(c, v) == IF v # UNDEFINED /\ serialize(c, v).ok THEN BOOLEAN ELSE {FALSE}

\* the event of a step that handled none
NoEvent == StorageEvent("otherKey", NoItem)

Step(op, req, full, calls, threw, path) ==
    [op |-> op, after |-> last.op, req |-> req, full |-> full, calls |-> calls,
     threw |-> threw, path |-> path, value |-> value, item |-> storage[key],
     event |-> NoEvent]

\* the second instance of a run that has none
NoOther ==
    [storage |-> [k \in Keys |-> NoItem], value |-> NULL, loading |-> FALSE,
     rendered |-> NULL, phase |-> "none", events |-> <<>>]

Init ==
    /\ other = NoOther
    /\ hook \in {"local", "session"}
    /\ codec \in Codecs
    /\ key = "testKey"
    /\ defaultValue \in Defaults(codec)
    /\ storage \in {f \in [Keys -> Items] : f["otherKey"] = Item(<<"1">>)}
    /\ value = NULL
    /\ loading = TRUE
    /\ rendered = NULL
    /\ phase = "mounting"
    /\ listening = FALSE
    /\ events = <<>>
    /\ steps = 0
    /\ last = [op |-> "none", after |-> "none", req |-> Literal(NULL), full |-> FALSE,
               calls |-> <<>>, threw |-> FALSE, path |-> "none", value |-> NULL,
               item |-> storage[key], event |-> NoEvent]
    /\ fresh = FALSE

\* useEffect of useLocalState / useSessionState: the initial load, then (local
\* only) the subscription to "storage" events
Mount ==
    /\ phase = "mounting"
    /\ \E full \in Quota(codec, defaultValue) :
          LET r == setInitialValue(storage, key, defaultValue, codec, full) IN
          /\ storage' = r.store
          /\ value' = r.value
          /\ loading' = ~r.ret
          /\ last' = Step("load", Literal(NULL), full, r.calls, FALSE, r.path)
    /\ listening' = (hook = "local")
    /\ phase' = "active"
    /\ fresh' = TRUE
    /\ UNCHANGED <<other, hook, codec, key, defaultValue, rendered, events, steps>>

\* React re-renders the component: the closures see the current state
Render ==
    /\ phase = "active"
    /\ rendered # value
    /\ rendered' = value
    /\ last' = Step("render", Literal(NULL), FALSE, <<>>, FALSE, "none")
    /\ UNCHANGED <<other, hook, codec, key, defaultValue, storage, value, loading, phase,
                   listening, events, steps, fresh>>

\* typeof v === "object" && v !== null: two equal values need not be the same
IsReference(v) == v.k \in {"object", "circular"}

\* the component can pass arguments that are equal to those of the render before
\* and yet differ by Object.is: an object literal as defaultValue, or arrow
\* functions as serialize / deserialize (JSON.stringify and JSON.parse, the
\* defaults, are the same functions in every render)
CanBeNew(c, d) == c = "name" \/ IsReference(d)

\* the component re-renders with a new but equal defaultValue, serialize or
\* deserialize: the dependencies [key, defaultValue, deserialize, serialize] of
\* the effect have changed, so React runs its cleanup and then the effect again
RenderNew ==
    /\ phase = "active"
    /\ steps < MaxSteps
    /\ CanBeNew(codec, defaultValue)
    /\ \E full \in Quota(codec, defaultValue) :
          LET r == setInitialValue(storage, key, defaultValue, codec, full) IN
          /\ storage' = r.store
          /\ value' = r.value
          /\ loading' = ~r.ret
          /\ last' = Step("reload", Literal(NULL), full, r.calls, FALSE, r.path)
    /\ rendered' = value
    /\ listening' = (hook = "local")
    /\ fresh' = TRUE
    /\ steps' = steps + 1
    /\ UNCHANGED <<other, hook, codec, key, defaultValue, phase, events>>

\* updateValue(newValue), as closed over by the last render
updateValue(req, full) ==
    LET c == calculateNewValue(req, rendered)
        u == updateStorage(storage, c.r, key, value, codec, full)
    IN  IF c.ok
        THEN /\ storage' = u.store
             /\ value' = u.value
             /\ last' = Step("update", req, full, u.calls, FALSE,
                             IF u.warned THEN "aborted" ELSE "written")
             /\ fresh' = (fresh \/ ~u.warned)
        ELSE /\ last' = Step("update", req, full, <<>>, TRUE, "threw")
             /\ UNCHANGED <<storage, value, fresh>>

Update ==
    /\ phase = "active"
    /\ steps < MaxSteps
    /\ \E req \in Requests(codec, rendered) :
          \E full \in (IF IsEmpty(calculateNewValue(req, rendered).r) THEN {FALSE}
                        ELSE Quota(codec, calculateNewValue(req, rendered).r)) :
              updateValue(req, full)
    /\ steps' = steps + 1
    /\ UNCHANGED <<other, hook, codec, key, defaultValue, loading, rendered, phase,
                   listening, events>>

\* another tab sets or removes a key of localStorage; the browser queues a
\* "storage" event for this tab
ExternalWrite ==
    /\ hook = "local"
    /\ steps < MaxSteps
    /\ \E k \in Keys, item \in Items :
          /\ k # key => item = NoItem
          /\ storage' = [storage EXCEPT ![k] = item]
          /\ events' = Append(events, StorageEvent(k, item))
          /\ fresh' = (fresh /\ k # key)
    /\ steps' = steps + 1
    /\ last' = Step("external", Literal(NULL), FALSE, <<>>, FALSE, "none")
    /\ UNCHANGED <<other, hook, codec, key, defaultValue, value, loading, rendered, phase,
                   listening>>

\* event.key === null: the event of localStorage.clear()
NoKey == "(null)"

\* another tab calls localStorage.clear(); the browser queues a "storage" event
\* with no key and no new value for this tab
ExternalClear ==
    /\ hook = "local"
    /\ steps < MaxSteps
    /\ \E k \in Keys : storage[k].has
    /\ storage' = [k \in Keys |-> NoItem]
    /\ events' = Append(events, StorageEvent(NoKey, NoItem))
    /\ fresh' = FALSE
    /\ steps' = steps + 1
    /\ last' = Step("external", Literal(NULL), FALSE, <<>>, FALSE, "none")
    /\ UNCHANGED <<other, hook, codec, key, defaultValue, value, loading, rendered, phase,
                   listening>>

\* handleStorageChange that leaves the state alone when event.newValue is null
handleStorageChange_NoClear(event, cur, k, c) ==
    IF event.key = k
    THEN IF Truthy(event.newValue)
         THEN LET d == deserialize(c, event.newValue.str) IN
              IF d.ok THEN [value |-> d.r, path |-> "adopted"]
              ELSE [value |-> cur, path |-> "dropped"]
         ELSE [value |-> cur, path |-> "cleared"]
    ELSE [value |-> cur, path |-> "ignored"]

\* handleStorageChange without the test event.key === key
handleStorageChange_AnyKey(event, cur, k, c) ==
    IF Truthy(event.newValue)
    THEN LET d == deserialize(c, event.newValue.str) IN
         IF d.ok THEN [value |-> d.r, path |-> "adopted"]
         ELSE [value |-> cur, path |-> "dropped"]
    ELSE [value |-> NULL, path |-> "cleared"]

\* handleStorageChange with setvalue(null) in the catch block
handleStorageChange_NullOnDrop(event, cur, k, c) ==
    IF event.key = k
    THEN IF Truthy(event.newValue)
         THEN LET d == deserialize(c, event.newValue.str) IN
              IF d.ok THEN [value |-> d.r, path |-> "adopted"]
              ELSE [value |-> NULL, path |-> "dropped"]
         ELSE [value |-> NULL, path |-> "cleared"]
    ELSE [value |-> cur, path |-> "ignored"]

\* handleStorageChange(event): the state it sets
handleStorageChange(event, cur, k, c) ==
    IF event.key = k
    THEN IF Truthy(event.newValue)
         THEN LET d == deserialize(c, event.newValue.str) IN
              IF d.ok THEN [value |-> d.r, path |-> "adopted"]
              ELSE [value |-> cur, path |-> "dropped"]
         ELSE [value |-> NULL, path |-> "cleared"]
    ELSE [value |-> cur, path |-> "ignored"]

\* the browser dispatches the oldest "storage" event
Deliver ==
    /\ events # <<>>
    /\ events' = Tail(events)
    /\ IF listening
       THEN LET h == handleStorageChange(Head(events), value, key, codec) IN
            /\ value' = h.value
            /\ last' = [Step("notify", Literal(NULL), FALSE, <<>>, FALSE, h.path)
                            EXCEPT !.event = Head(events)]
            /\ fresh' = CASE h.path = "ignored" -> fresh
                           [] h.path = "dropped" -> FALSE
                           [] OTHER -> Head(events).newValue = storage[key]
       ELSE /\ last' = Step("unheard", Literal(NULL), FALSE, <<>>, FALSE, "none")
            /\ UNCHANGED <<value, fresh>>
    /\ UNCHANGED <<other, hook, codec, key, defaultValue, storage, loading, rendered, phase,
                   listening, steps>>

Next == Mount \/ Render \/ RenderNew \/ Update \/ ExternalWrite \/ Deliver

Spec == Init /\ [][Next]_vars

\* React runs the effect of a component it has rendered
SpecLive == Spec /\ WF_vars(Mount)

(***************************************************************************)
(* The life of the hook instance: the key argument changes, the component  *)
(* unmounts, another tab clears the backend.                               *)
(***************************************************************************)
\* the unmount of an effect whose cleanup leaves the listener registered
Unmount_KeepListener ==
    /\ phase = "active"
    /\ phase' = "unmounted"
    /\ last' = Step("unmount", Literal(NULL), FALSE, <<>>, FALSE, "none")
    /\ UNCHANGED <<other, hook, codec, key, defaultValue, storage, value, loading, rendered,
                   listening, events, steps, fresh>>

\* the component unmounts: React runs the cleanup of the effect (useLocalState
\* removes its listener; useSessionState has no cleanup)
Unmount ==
    /\ phase = "active"
    /\ phase' = "unmounted"
    /\ listening' = FALSE
    /\ last' = Step("unmount", Literal(NULL), FALSE, <<>>, FALSE, "none")
    /\ UNCHANGED <<other, hook, codec, key, defaultValue, storage, value, loading, rendered,
                   events, steps, fresh>>

\* the component re-renders with another key: the dependencies of the effect
\* have changed, so React runs its cleanup and then the effect with the new key
Rekey ==
    /\ phase = "active"
    /\ steps < MaxSteps
    /\ \E k \in Keys \ {key} :
          \E full \in Quota(codec, defaultValue) :
              LET r == setInitialValue(storage, k, defaultValue, codec, full) IN
              /\ key' = k
              /\ storage' = r.store
              /\ value' = r.value
              /\ loading' = ~r.ret
              /\ last' = Step("rekey", Literal(NULL), full, r.calls, FALSE, r.path)
    /\ rendered' = value
    /\ listening' = (hook = "local")
    /\ fresh' = TRUE
    /\ steps' = steps + 1
    /\ UNCHANGED <<other, hook, codec, defaultValue, phase, events>>

\* the defaults of the runs that follow the life of the hook
LifeDefaults(c) == {UNDEFINED} \cup (IF c = "json" THEN {Num(0)} ELSE {Obj(<<"J">>)})

InitLife == Init /\ defaultValue \in LifeDefaults(codec)

NextLife == Next \/ ExternalClear \/ Unmount \/ Rekey

SpecLife == InitLife /\ [][NextLife]_vars

(***************************************************************************)
(* useSessionState and useLocalState side by side: the same arguments, the *)
(* same requests, each instance on its own backend with the same content.  *)
(* The variables of the hook hold the useLocalState instance, other the    *)
(* useSessionState instance.                                               *)
(***************************************************************************)
\* the effect of useLocalState: the load, setLoading, the listener
useLocalStateEffect(store, k, d, c, full) ==
    LET r == setInitialValue(store, k, d, c, full) IN
    [store |-> r.store, value |-> r.value, loading |-> ~r.ret, listening |-> TRUE,
     calls |-> r.calls, path |-> r.path]

\* the effect of useSessionState: the load, setLoading
useSessionStateEffect(store, k, d, c, full) ==
    LET r == setInitialValue(store, k, d, c, full) IN
    [store |-> r.store, value |-> r.value, loading |-> ~r.ret, listening |-> FALSE,
     calls |-> r.calls, path |-> r.path]

\* updateValue of useLocalState; seen is the value its render closed over
useLocalStateUpdate(req, seen, store, k, cur, c, full) ==
    LET n == calculateNewValue(req, seen)
        u == updateStorage(store, n.r, k, cur, c, full)
    IN  IF n.ok
        THEN [store |-> u.store, value |-> u.value, calls |-> u.calls, threw |-> FALSE,
              path |-> IF u.warned THEN "aborted" ELSE "written"]
        ELSE [store |-> store, value |-> cur, calls |-> <<>>, threw |-> TRUE,
              path |-> "threw"]

\* updateValue of useSessionState that hands the updater the current state
useSessionStateUpdate_Current(req, seen, store, k, cur, c, full) ==
    LET n == calculateNewValue(req, cur)
        u == updateStorage(store, n.r, k, cur, c, full)
    IN  IF n.ok
        THEN [store |-> u.store, value |-> u.value, calls |-> u.calls, threw |-> FALSE,
              path |-> IF u.warned THEN "aborted" ELSE "written"]
        ELSE [store |-> store, value |-> cur, calls |-> <<>>, threw |-> TRUE,
              path |-> "threw"]

\* updateValue of useSessionState; seen is the value its render closed over
useSessionStateUpdate(req, seen, store, k, cur, c, full) ==
    LET n == calculateNewValue(req, seen)
        u == updateStorage(store, n.r, k, cur, c, full)
    IN  IF n.ok
        THEN [store |-> u.store, value |-> u.value, calls |-> u.calls, threw |-> FALSE,
              path |-> IF u.warned THEN "aborted" ELSE "written"]
        ELSE [store |-> store, value |-> cur, calls |-> <<>>, threw |-> TRUE,
              path |-> "threw"]

InitPair ==
    /\ hook = "local"
    /\ codec \in Codecs
    /\ key = "testKey"
    /\ defaultValue \in Defaults(codec)
    /\ storage \in {f \in [Keys -> Items] : f["otherKey"] = Item(<<"1">>)}
    /\ value = NULL
    /\ loading = TRUE
    /\ rendered = NULL
    /\ phase = "mounting"
    /\ listening = FALSE
    /\ events = <<>>
    /\ steps = 0
    /\ last = [op |-> "none", after |-> "none", req |-> Literal(NULL), full |-> FALSE,
               calls |-> <<>>, threw |-> FALSE, path |-> "none", value |-> NULL,
               item |-> storage[key], event |-> NoEvent]
    /\ fresh = FALSE
    /\ other = [storage |-> storage, value |-> NULL, loading |-> TRUE,
                rendered |-> NULL, phase |-> "mounting", events |-> <<>>]

\* both components have rendered once: React runs the effect of each
PairMount ==
    /\ phase = "mounting"
    /\ \E full \in Quota(codec, defaultValue) :
          LET l == useLocalStateEffect(storage, key, defaultValue, codec, full)
              r == useSessionStateEffect(other.storage, key, defaultValue, codec, full)
          IN  /\ storage' = l.store
              /\ value' = l.value
              /\ loading' = l.loading
              /\ listening' = l.listening
              /\ last' = Step("load", Literal(NULL), full, l.calls, FALSE, l.path)
              /\ other' = [other EXCEPT !.storage = r.store, !.value = r.value,
                                        !.loading = r.loading, !.phase = "active"]
    /\ phase' = "active"
    /\ fresh' = TRUE
    /\ UNCHANGED <<hook, codec, key, defaultValue, rendered, events, steps>>

\* React re-renders both components
PairRender ==
    /\ phase = "active"
    /\ rendered # value \/ other.rendered # other.value
    /\ rendered' = value
    /\ other' = [other EXCEPT !.rendered = other.value]
    /\ last' = Step("render", Literal(NULL), FALSE, <<>>, FALSE, "none")
    /\ UNCHANGED <<hook, codec, key, defaultValue, storage, value, loading, phase,
                   listening, events, steps, fresh>>

\* both components call updateValue with the same request
PairUpdate ==
    /\ phase = "active"
    /\ steps < MaxSteps
    /\ \E req \in Requests(codec, rendered) :
          \E full \in (IF IsEmpty(calculateNewValue(req, rendered).r) THEN {FALSE}
                        ELSE Quota(codec, calculateNewValue(req, rendered).r)) :
              LET l == useLocalStateUpdate(req, rendered, storage, key, value, codec, full)
                  r == useSessionStateUpdate(req, other.rendered, other.storage, key,
                                             other.value, codec, full)
              IN  /\ storage' = l.store
                  /\ value' = l.value
                  /\ last' = Step("update", req, full, l.calls, l.threw, l.path)
                  /\ fresh' = (fresh \/ l.path = "written")
                  /\ other' = [other EXCEPT !.storage = r.store, !.value = r.value]
    /\ steps' = steps + 1
    /\ UNCHANGED <<hook, codec, key, defaultValue, loading, rendered, phase,
                   listening, events>>

NextPair == PairMount \/ PairRender \/ PairUpdate

SpecPair == InitPair /\ [][NextPair]_vars

(***************************************************************************)
(* Two tabs: a useLocalState instance in each, on the same key of the same *)
(* localStorage.  The variables of the hook hold the instance of this tab, *)
(* other the instance of the other tab.  A call that changes the backend   *)
(* makes the browser queue a "storage" event for the other tab.            *)
(***************************************************************************)
\* the queue of a tab after the other tab turned the backend from before to after
Raise(queue, k, before, after) ==
    IF before[k] # after[k] THEN Append(queue, StorageEvent(k, after[k])) ELSE queue

\* the values the tabs write, and the requests they make
TabValues(c) == IF c = "json" THEN {Num(1), Str(<<"a">>)} ELSE {Obj(<<"J">>)}
TabRequests(c) == {Literal(v) : v \in TabValues(c) \cup {NULL}}

InitTabs ==
    /\ hook = "local"
    /\ codec \in Codecs
    /\ key = "testKey"
    /\ defaultValue \in LifeDefaults(codec)
    /\ storage \in {f \in [Keys -> Items] :
                       f["otherKey"] = Item(<<"1">>) /\ f[key] \in {NoItem, Item(<<"1">>)}}
    /\ value = NULL
    /\ loading = TRUE
    /\ rendered = NULL
    /\ phase = "mounting"
    /\ listening = FALSE
    /\ events = <<>>
    /\ steps = 0
    /\ last = [op |-> "none", after |-> "none", req |-> Literal(NULL), full |-> FALSE,
               calls |-> <<>>, threw |-> FALSE, path |-> "none", value |-> NULL,
               item |-> storage[key], event |-> NoEvent]
    /\ fresh = FALSE
    /\ other = [NoOther EXCEPT !.loading = TRUE, !.phase = "mounting"]

\* the effect of the instance of this tab
TabMount ==
    /\ phase = "mounting"
    /\ LET l == useLocalStateEffect(storage, key, defaultValue, codec, FALSE) IN
       /\ storage' = l.store
       /\ value' = l.value
       /\ loading' = l.loading
       /\ listening' = l.listening
       /\ last' = Step("load", Literal(NULL), FALSE, l.calls, FALSE, l.path)
       /\ other' = [other EXCEPT !.events = Raise(other.events, key, storage, l.store)]
    /\ phase' = "active"
    /\ fresh' = TRUE
    /\ UNCHANGED <<hook, codec, key, defaultValue, rendered, events, steps>>

\* the effect of the instance of the other tab
OtherMount ==
    /\ other.phase = "mounting"
    /\ LET l == useLocalStateEffect(storage, key, defaultValue, codec, FALSE) IN
       /\ storage' = l.store
       /\ other' = [other EXCEPT !.value = l.value, !.loading = l.loading,
                                 !.phase = "active"]
       /\ events' = Raise(events, key, storage, l.store)
       /\ last' = Step("peer", Literal(NULL), FALSE, l.calls, FALSE, l.path)
    /\ fresh' = FALSE
    /\ UNCHANGED <<hook, codec, key, defaultValue, value, loading, rendered, phase,
                   listening, steps>>

\* React re-renders the component of this tab
TabRender ==
    /\ phase = "active"
    /\ rendered # value
    /\ rendered' = value
    /\ last' = Step("render", Literal(NULL), FALSE, <<>>, FALSE, "none")
    /\ UNCHANGED <<other, hook, codec, key, defaultValue, storage, value, loading,
                   phase, listening, events, steps, fresh>>

\* React re-renders the component of the other tab
OtherRender ==
    /\ other.phase = "active"
    /\ other.rendered # other.value
    /\ other' = [other EXCEPT !.rendered = other.value]
    /\ last' = Step("peer", Literal(NULL), FALSE, <<>>, FALSE, "none")
    /\ UNCHANGED <<hook, codec, key, defaultValue, storage, value, loading, rendered,
                   phase, listening, events, steps, fresh>>

\* updateValue in this tab
TabUpdate ==
    /\ phase = "active"
    /\ steps < MaxSteps
    /\ \E req \in TabRequests(codec) :
          LET l == useLocalStateUpdate(req, rendered, storage, key, value, codec, FALSE) IN
          /\ storage' = l.store
          /\ value' = l.value
          /\ last' = Step("update", req, FALSE, l.calls, l.threw, l.path)
          /\ other' = [other EXCEPT !.events = Raise(other.events, key, storage, l.store)]
    /\ fresh' = TRUE
    /\ steps' = steps + 1
    /\ UNCHANGED <<hook, codec, key, defaultValue, loading, rendered, phase,
                   listening, events>>

\* updateValue in the other tab
OtherUpdate ==
    /\ other.phase = "active"
    /\ steps < MaxSteps
    /\ \E req \in TabRequests(codec) :
          LET l == useLocalStateUpdate(req, other.rendered, storage, key, other.value,
                                       codec, FALSE) IN
          /\ storage' = l.store
          /\ other' = [other EXCEPT !.value = l.value]
          /\ events' = Raise(events, key, storage, l.store)
          /\ last' = Step("peer", req, FALSE, l.calls, l.threw, l.path)
    /\ fresh' = FALSE
    /\ steps' = steps + 1
    /\ UNCHANGED <<hook, codec, key, defaultValue, value, loading, rendered, phase,
                   listening>>

\* the browser dispatches the oldest "storage" event of this tab
TabDeliver ==
    /\ events # <<>>
    /\ events' = Tail(events)
    /\ LET h == IF phase = "active"
                THEN handleStorageChange(Head(events), value, key, codec)
                ELSE [value |-> value, path |-> "unheard"]
       IN  /\ value' = h.value
           /\ last' = [Step("notify", Literal(NULL), FALSE, <<>>, FALSE, h.path)
                           EXCEPT !.event = Head(events)]
    /\ fresh' = FALSE
    /\ UNCHANGED <<other, hook, codec, key, defaultValue, storage, loading, rendered,
                   phase, listening, steps>>

\* the browser dispatches the oldest "storage" event of the other tab
OtherDeliver ==
    /\ other.events # <<>>
    /\ LET h == IF other.phase = "active"
                THEN handleStorageChange(Head(other.events), other.value, key, codec)
                ELSE [value |-> other.value, path |-> "unheard"]
       IN  /\ other' = [other EXCEPT !.events = Tail(other.events), !.value = h.value]
           /\ last' = [Step("peer", Literal(NULL), FALSE, <<>>, FALSE, h.path)
                           EXCEPT !.event = Head(other.events)]
    /\ UNCHANGED <<hook, codec, key, defaultValue, storage, value, loading, rendered,
                   phase, listening, events, steps, fresh>>

NextTabs ==
    \/ TabMount \/ OtherMount \/ TabRender \/ OtherRender
    \/ TabUpdate \/ OtherUpdate \/ TabDeliver \/ OtherDeliver

SpecTabs == InitTabs /\ [][NextTabs]_vars

(***************************************************************************)
(* The render / effect cycle of one instance that is left alone: no call   *)
(* of updateValue, no "storage" event.  phase is "mounting" (rendered once,*)
(* effect not yet run), "rendering" (a setvalue or setLoading of the       *)
(* effect changed the state, React will render again) or "active" (nothing *)
(* is scheduled).  useState keeps the state and schedules no render when   *)
(* the new state is the old one by Object.is.                              *)
(***************************************************************************)
\* the effect has produced state r (of setInitialValue); sameDefault: value is
\* the defaultValue object this effect closes over.  TRUE when setvalue(r.value)
\* or setLoading(!r.ret) changes the state: what deserialize returns is a new
\* object every time, a defaultValue object is the state only if it was adopted
\* by the load before and the render passed the same object again
StateChanged(r, sameDefault) ==
    \/ loading # ~r.ret
    \/ value # r.value
    \/ IsReference(r.value) /\ (r.path = "stored" \/ ~sameDefault)

\* the effect after the first render
CycleMount ==
    /\ phase = "mounting"
    /\ \E full \in Quota(codec, defaultValue) :
          LET r == setInitialValue(storage, key, defaultValue, codec, full) IN
          /\ storage' = r.store
          /\ value' = r.value
          /\ loading' = ~r.ret
          /\ last' = Step("load", Literal(NULL), full, r.calls, FALSE, r.path)
          /\ phase' = IF StateChanged(r, FALSE) THEN "rendering" ELSE "active"
    /\ listening' = (hook = "local")
    /\ fresh' = TRUE
    /\ UNCHANGED <<other, hook, codec, key, defaultValue, rendered, events, steps>>

\* the scheduled render, with the arguments of the render before: the
\* dependencies of the effect are unchanged and React does not run it
CycleRender ==
    /\ phase = "rendering"
    /\ rendered' = value
    /\ phase' = "active"
    /\ last' = Step("render", Literal(NULL), FALSE, <<>>, FALSE, "none")
    /\ UNCHANGED <<other, hook, codec, key, defaultValue, storage, value, loading,
                   listening, events, steps, fresh>>

\* the scheduled render of a component that writes its arguments inline: a new
\* defaultValue object (newDefault), new serialize / deserialize functions
\* (newCodec), or both; the dependencies have changed and React runs the cleanup
\* and the effect again
CycleRenderNew ==
    /\ phase = "rendering"
    /\ \E newDefault \in (IF IsReference(defaultValue) THEN BOOLEAN ELSE {FALSE}),
          newCodec \in (IF codec = "name" THEN BOOLEAN ELSE {FALSE}) :
          /\ newDefault \/ newCodec
          /\ \E full \in Quota(codec, defaultValue) :
                LET r == setInitialValue(storage, key, defaultValue, codec, full) IN
                /\ storage' = r.store
                /\ value' = r.value
                /\ loading' = ~r.ret
                /\ last' = Step("reload", Literal(NULL), full, r.calls, FALSE, r.path)
                /\ phase' = IF StateChanged(r, last.path = "default" /\ ~newDefault)
                            THEN "rendering" ELSE "active"
    /\ rendered' = value
    /\ listening' = (hook = "local")
    /\ fresh' = TRUE
    /\ UNCHANGED <<other, hook, codec, key, defaultValue, events, steps>>

NextCycle == CycleMount \/ CycleRender \/ CycleRenderNew

\* React runs a scheduled effect and a scheduled render
SpecCycle ==
    /\ Init
    /\ [][NextCycle]_vars
    /\ WF_vars(CycleMount)
    /\ WF_vars(CycleRender \/ CycleRenderNew)

(***************************************************************************)
(* Properties.                                                             *)
(***************************************************************************)
\* the backend calls of the last step that persisted something
SetCalls == {i \in 1..Len(last.calls) : last.calls[i].op = "setItem"}
\* the initial load found a record it could deserialize
FoundStored == Truthy(last.item) /\ deserialize(codec, last.item.str).ok
\* the default was given, serialize accepted it and setItem took it
DefaultPersistable ==
    defaultValue # UNDEFINED /\ serialize(codec, defaultValue).ok /\ ~last.full

\* C1: update requests are applied in the order issued: a request that directly
\* follows another request, an updater included, works on the value its predecessor
\* produced, so after it the state and the record are what the request makes of
\* the state its predecessor left.
C1_UpdatesAppliedInOrder ==
    (last.op = "update" /\ last.after = "update" /\ ~last.threw) =>
        LET c == calculateNewValue(last.req, last.value)
            u == updateStorage([storage EXCEPT ![key] = last.item], c.r, key,
                               last.value, codec, last.full)
        IN  c.ok => (value = u.value /\ storage[key] = u.store[key])

C3_EmptyNeverPersisted == \A i \in SetCalls : ~IsEmpty(last.calls[i].of)

\* C4: update(null), update(undefined) and update("") leave no record under the
\* key and the value null, whatever the state before.
C4_EmptyUpdateRemoves ==
    (last.op = "update" /\ last.req \in {Literal(NULL), Literal(UNDEFINED), Literal(Str(<<>>))}) =>
        (~storage[key].has /\ value = NULL)

C4_Witness ==
    /\ last.op = "update"
    /\ last.req = Literal(Str(<<>>))
    /\ last.item.has
    /\ last.value # NULL
    /\ ~storage[key].has
    /\ value = NULL

C6_CorruptRecordRecovery ==
    (/\ last.op = "load"
     /\ last.item.has
     /\ ~deserialize(codec, last.item.str).ok
     /\ DefaultPersistable) =>
        /\ value = defaultValue
        /\ storage[key] = Item(serialize(codec, defaultValue).r)
        /\ last.calls = <<CallGet(key), CallRemove(key),
                          CallSet(key, serialize(codec, defaultValue).r, defaultValue)>>
        /\ ~last.threw

\* C7 as stated: the initial load of a key with no record, with a defined default
\* (and a backend that takes the write), ends with the value the default and the
\* record serialize(default), which deserializes back to the default.
C7_DefinedDefaultAdopted ==
    (last.op = "load" /\ ~last.item.has /\ defaultValue # UNDEFINED /\ ~last.full) =>
        /\ value = defaultValue
        /\ serialize(codec, defaultValue).ok
        /\ storage[key] = Item(serialize(codec, defaultValue).r)
        /\ deserialize(codec, storage[key].str) = Ok(defaultValue)

\* C7 amended: the initial load of a key with no record, with a defined default
\* that serialize accepts and setItem takes, ends with the value the default and
\* the record serialize(default); the record deserializes back to the default
\* when serialize and deserialize are inverses on it (on NaN, which JSON.stringify
\* turns into "null", they are not).
C7_DefaultAdopted ==
    (last.op = "load" /\ ~last.item.has /\ DefaultPersistable) =>
        /\ value = defaultValue
        /\ storage[key] = Item(serialize(codec, defaultValue).r)
        /\ RoundTrips(codec, defaultValue) =>
              deserialize(codec, storage[key].str) = Ok(defaultValue)

C7_Witness ==
    /\ last.op = "load"
    /\ ~last.item.has
    /\ defaultValue = Num(0)
    /\ value = Num(0)
    /\ storage[key] = Item(<<"0">>)

\* C8: the initial load of a key holding a record the deserializer accepts ends
\* with the value deserialize(record), the record unchanged, and the default
\* neither adopted nor written.
C8_StoredRecordAdopted ==
    (/\ last.op = "load"
     /\ last.item.has
     /\ deserialize(codec, last.item.str).ok) =>
        /\ value = deserialize(codec, last.item.str).r
        /\ storage[key] = last.item
        /\ SetCalls = {}

\* C9: the initial load of a key with no record and no default ends with the
\* value null, loading false and still no record.
C9_NothingFound ==
    (last.op = "load" /\ ~last.item.has /\ defaultValue = UNDEFINED) =>
        (value = NULL /\ ~loading /\ ~storage[key].has)

C9_Witness ==
    /\ last.op = "load"
    /\ ~last.item.has
    /\ defaultValue = UNDEFINED
    /\ value = NULL
    /\ ~loading

\* C10: when the initial load comes to the default and serialize (or setItem)
\* throws on it, the value is null, nothing is written to the backend, loading is
\* false and nothing is thrown.
C10_UnserializableDefault ==
    (/\ last.op = "load"
     /\ ~FoundStored
     /\ defaultValue # UNDEFINED
     /\ ~DefaultPersistable) =>
        /\ value = NULL
        /\ SetCalls = {}
        /\ storage[key] \in {last.item, NoItem}
        /\ ~loading
        /\ ~last.threw

C10_Witness ==
    /\ last.op = "load"
    /\ defaultValue = CIRCULAR
    /\ ~FoundStored
    /\ value = NULL
    /\ ~loading

\* the values another context may have serialized into a record
Writable(c) == {x \in TypeOf(c) \cup {NULL} : serialize(c, x).ok}

\* C11: when another context has set the record under the key to serialize(x)
\* and the notification carrying it is handled, the value becomes x, and the
\* handler makes no call on the backend and leaves the record as it found it.
C11_NotificationAdopted ==
    (/\ last.op = "notify"
     /\ last.event.key = key
     /\ last.event.newValue.has) =>
        /\ \A x \in Writable(codec) :
              serialize(codec, x).r = last.event.newValue.str => value = x
        /\ last.calls = <<>>
        /\ storage[key] = last.item

\* the listener is handed a notification for the key whose raw value the
\* deserializer rejects
CorruptNotification ==
    /\ events # <<>>
    /\ listening
    /\ events' = Tail(events)
    /\ Head(events).key = key
    /\ Head(events).newValue.has
    /\ ~deserialize(codec, Head(events).newValue.str).ok

\* C12: handling a notification for the key whose new raw value fails to
\* deserialize changes nothing: the value, the loading flag and the record stay
\* as they were, and nothing is thrown.
C12_CorruptNotificationDropped ==
    [][CorruptNotification =>
          /\ value' = value
          /\ loading' = loading
          /\ storage' = storage
          /\ ~last'.threw]_vars

\* the last step ran into a failing serialize, deserialize, updater or setItem
\* and had nothing to fall back on
Failed == last.path \in {"unserializable", "aborted", "dropped", "threw"}

CodecError ==
    \/ last.op = "load" /\ Truthy(last.item) /\ ~deserialize(codec, last.item.str).ok
    \/ last.op = "load" /\ last.path = "unserializable" /\ ~serialize(codec, defaultValue).ok
    \/ last.op = "update" /\ last.path = "aborted" /\ ~last.full
    \/ last.op = "notify" /\ last.path = "dropped"

C15_LoadingEnds == <>(~loading) /\ [](~loading => [](~loading))

C15_Witness ==
    /\ ~loading
    /\ defaultValue = CIRCULAR
    /\ last.op = "update"
    /\ last.after = "load"
    /\ ~Truthy(last.item)
    /\ steps = 1

\* C16: the load runs once; in an active hook the value changes, the record under
\* the key changes and the backend is written only in an update or (value only)
\* the handling of a notification, writes of other contexts aside. A re-render
\* with new but equal arguments changes neither.
C16_LoadedOnce ==
    [][(/\ phase = "active"
        /\ \/ value' # value
           \/ storage'[key] # storage[key]
           \/ \E i \in 1..Len(last'.calls) : last'.calls[i].op # "getItem") =>
          last'.op \in {"update", "notify", "external"}]_vars

\* the values a fresh activation on the key may end with, over every default
Reloaded ==
    {setInitialValue(storage, key, d, codec, full).value :
        d \in Defaults(codec), full \in BOOLEAN}

\* C17: after update(v) with a literal v that is not falsy, on which serialize and
\* deserialize are inverses and which the backend takes, the value is v, the
\* record deserializes to v, and a fresh activation on the key ends with the
\* value v whatever its default.
C17_RoundTrip ==
    (/\ last.op = "update"
     /\ last.req.fn = "none"
     /\ ~Falsy(last.req.v)
     /\ RoundTrips(codec, last.req.v)
     /\ ~last.full) =>
        /\ value = last.req.v
        /\ storage[key].has
        /\ deserialize(codec, storage[key].str) = Ok(last.req.v)
        /\ Reloaded = {last.req.v}

\* C18: update(v) with a literal v, called again right after update(v) (the
\* backend answering the second call as it did the first), changes neither the
\* value nor the record.
C18_LiteralUpdateIdempotent ==
    [][(/\ last.op = "update"
        /\ last.req.fn = "none"
        /\ last'.op = "update"
        /\ last'.req = last.req
        /\ last'.full = last.full) =>
          (value' = value /\ storage' = storage)]_vars

\* with no default and the default JSON functions, the string "a" comes from
\* nowhere but update("a"): both steps of the run were update("a")
C18_Witness ==
    /\ last.op = "update"
    /\ last.after = "update"
    /\ last.req = Literal(Str(<<"a">>))
    /\ ~last.full
    /\ hook = "session"
    /\ defaultValue = UNDEFINED
    /\ steps = 2
    /\ last.value = Str(<<"a">>)
    /\ value = Str(<<"a">>)
    /\ storage[key] = last.item

\* what the updater of the last step makes of the value the hook held before it
Updated == callback(last.req, last.value)

FalsyUpdate == last.op = "update" /\ last.req.fn = "none" /\ Falsy(last.req.v)

\* C20 as stated: a falsy literal passed to update (0, false, NaN, null, undefined,
\* "") removes the key and sets the value null, while the same falsy value given
\* as the default is persisted and adopted by a load that comes to the default
\* (the backend taking the write).
C20_FalsyLiteralAndDefault ==
    /\ FalsyUpdate => (~storage[key].has /\ value = NULL)
    /\ (last.op = "load" /\ ~FoundStored /\ Falsy(defaultValue) /\ ~last.full) =>
          /\ serialize(codec, defaultValue).ok
          /\ storage[key] = Item(serialize(codec, defaultValue).r)
          /\ value = defaultValue

\* C20 amended: a falsy literal passed to update removes the key and sets the
\* value null, while the same falsy value, undefined apart, given as the default
\* is persisted and adopted by a load that comes to the default, when serialize
\* accepts it and the backend takes the write.
C20_FalsyLiteralAndDefinedDefault ==
    /\ FalsyUpdate => (~storage[key].has /\ value = NULL)
    /\ (last.op = "load" /\ ~FoundStored /\ Falsy(defaultValue) /\ DefaultPersistable) =>
          /\ storage[key] = Item(serialize(codec, defaultValue).r)
          /\ value = defaultValue

C20_Witness ==
    /\ FalsyUpdate
    /\ last.req = Literal(Num(0))
    /\ defaultValue = Num(0)
    /\ last.after = "render"
    /\ last.value = Num(0)
    /\ last.item = Item(<<"0">>)
    /\ value = NULL
    /\ ~storage[key].has

\* the initial load found a record, and the deserializer accepts it
WellFormedRecord == last.item.has /\ deserialize(codec, last.item.str).ok

\* C22: in an initial load with a default, the default is written exactly when no
\* well-formed record was found (and the default can be persisted); a record that
\* exists, the empty string included, is adopted and left as it is when it is
\* well-formed, and removed before the default step when it is corrupt.
C22_DefaultWrittenIffNoRecord ==
    (last.op = "load" /\ defaultValue # UNDEFINED) =>
        /\ (SetCalls # {}) <=> (~WellFormedRecord /\ DefaultPersistable)
        /\ WellFormedRecord =>
              /\ value = deserialize(codec, last.item.str).r
              /\ storage[key] = last.item
        /\ (last.item.has /\ ~WellFormedRecord) =>
              /\ Len(last.calls) >= 2
              /\ last.calls[2] = CallRemove(key)

\* C23: what an updater returns is not coerced: when it returns a value that is
\* not empty, 0 and false included, and the backend takes the write, the record
\* becomes serialize of that value and the value that value; when it returns
\* null, undefined or "", the key is removed and the value becomes null.
C23_UpdaterResultNotCoerced ==
    (/\ last.op = "update"
     /\ last.req.fn # "none"
     /\ callback(last.req, rendered).ok
     /\ ~last.full) =>
        LET r == callback(last.req, rendered).r IN
        IF IsEmpty(r)
        THEN ~storage[key].has /\ value = NULL
        ELSE serialize(codec, r).ok =>
                 /\ storage[key] = Item(serialize(codec, r).r)
                 /\ value = r

C23_Witness ==
    /\ last.op = "update"
    /\ last.req = Constant(Bool(FALSE))
    /\ last.value = Num(1)
    /\ value = Bool(FALSE)
    /\ storage[key] = Item(TextFalse)

\* the listener is handed the oldest notification
Notified == events # <<>> /\ listening /\ events' = Tail(events)

\* C24: a notification for another key, or with no key, leaves the value, the
\* loading flag and the backend as they were; a notification for the key of the
\* hook with no new value sets the value null and makes no call on the backend.
C24_OnlyOwnKeyNotifications ==
    [][Notified =>
          /\ Head(events).key # key =>
                (value' = value /\ loading' = loading /\ storage' = storage)
          /\ (Head(events).key = key /\ ~Head(events).newValue.has) =>
                (value' = NULL /\ storage' = storage /\ last'.calls = <<>>)]_vars

C24_Witness ==
    /\ last.op = "notify"
    /\ last.event = StorageEvent(NoKey, NoItem)
    /\ last.path = "ignored"
    /\ last.value # NULL
    /\ value = last.value
    /\ ~storage[key].has

\* C25: unmounting removes the listener and does nothing else: it makes no call
\* on the backend and leaves every record as it was; a notification dispatched
\* after the unmount is not handled, so the state and the backend stay as they
\* were.
C25_UnmountOnlyUnsubscribes ==
    [][/\ last'.op = "unmount" =>
             /\ ~listening'
             /\ storage' = storage
             /\ last'.calls = <<>>
             /\ value' = value
             /\ loading' = loading
       /\ (phase = "unmounted" /\ events # <<>> /\ events' = Tail(events)) =>
             /\ last'.op = "unheard"
             /\ value' = value
             /\ loading' = loading
             /\ storage' = storage]_vars

C25_Witness ==
    /\ hook = "local"
    /\ phase = "unmounted"
    /\ last.op = "unheard"
    /\ value = Num(1)
    /\ storage[key] = Item(TextInvalid)
    /\ events = <<>>

\* a step of the hook itself
OwnStep == last'.op \in {"load", "reload", "rekey", "render", "update", "notify", "unmount"}

\* C28: every step of the hook (load, update, clean-up of a corrupt record,
\* handling of a notification, also after the key has changed) calls the backend
\* with the hook's current key only, and leaves the record under every other key
\* as it was.
C28_OnlyOwnKeyTouched ==
    [][OwnStep =>
          /\ \A i \in 1..Len(last'.calls) : last'.calls[i].key = key'
          /\ \A k \in Keys \ {key'} : storage'[k] = storage[k]]_vars

C28_Witness ==
    /\ key = "otherKey"
    /\ last.op = "update"
    /\ last.after = "rekey"
    /\ last.item = Item(<<"1">>)
    /\ storage["otherKey"] = Item(<<Quote, "a", Quote>>)
    /\ storage["testKey"] = Item(<<"0">>)

Quiescent ==
    /\ phase = "active"
    /\ other.phase = "active"
    /\ events = <<>>
    /\ other.events = <<>>

\* what the record under the key deserializes to (null when there is none)
RecordValue ==
    IF storage[key].has THEN deserialize(codec, storage[key].str).r ELSE NULL

\* C26: with a useLocalState instance on the same key in each of two tabs, whose
\* updates interleave and whose notifications are delivered later, once every
\* pending notification has been delivered the value of each instance is what
\* the record under the key deserializes to.
C26_TabsConverge ==
    Quiescent => (value = RecordValue /\ other.value = RecordValue)

\* C27: left alone after it has mounted (no update, no notification), the
\* instance comes to rest after finitely many loads, whatever its arguments,
\* new defaultValue objects and new serialize / deserialize functions in every
\* render included: from some point on no render and no effect is scheduled.
C27_CycleQuiesces == <>[](phase = "active")

====
